---- MODULE Spec2Model ----
(***************************************************************************)
(* Room coordination and relay state machine of server/server.js           *)
(* (socket.io signaling server of webrtc-app).                             *)
(*                                                                         *)
(* State: the room map `rooms` (a JS Map, kept here as a sequence in       *)
(* insertion order), the transport's room groups                           *)
(* (io.sockets.adapter.rooms), the life cycle of each socket and the       *)
(* clock.  One action per socket.io event handler.  Node runs one handler  *)
(* at a time: a handler step records in `lastEvent`, `sent` and `pre` the   *)
(* event it handled, what it emitted and the room state it started from,   *)
(* and the step Return (the handler returns to the event loop, its         *)
(* emissions are handed to the transport) clears that record before the    *)
(* next event is dispatched.  Properties of one handler run are therefore  *)
(* state predicates over the state in which the handler has just run.      *)
(* `joinedAs` remembers, for each socket present in a room, the isOfferer   *)
(* value of the room-ready it was sent when it entered the room, and       *)
(* `isOfferer` is the client's variable of that name (client/app.js), set  *)
(* by the last room-ready the socket received.                             *)
(*                                                                         *)
(* Room identifiers are client-supplied strings; socket ids are generated  *)
(* by the transport.  The model keeps the two name spaces disjoint: no     *)
(* client sends another socket's id as a room identifier.                  *)
(***************************************************************************)
EXTENDS Integers, Sequences, FiniteSets, TLC

\* ---------------------------------------------------------------- bounds
MaxConns == 3

\* the number of client events handled along one behaviour
MaxEvents == 5

\* the number of clock advances along one behaviour
MaxTicks == 1

Conns == 1..MaxConns

RoomIds == {"", "r1"}

SdpValues == {"sdp1"}

\* chat texts are represented by their length (String.length)
MessageLengths == {1, 500, 501}

\* client/app.js:272  `msg.length > 500`
MaxMessageLength == 500

\* server.js:354  const maxAge = 24 * 60 * 60 * 1000
MaxAge == 24 * 60 * 60 * 1000

\* the amounts by which Date.now() is seen to advance between two events:
\* up to the retention window exactly, and just past it
TickSteps == {MaxAge, MaxAge + 1}

NoRoom == "<none>"

NoPayload == [none |-> TRUE]

VARIABLES sockets, rooms, adapter, now, lastEvent, sent, pre, handled,
          joinedAs, ticks,
          isOfferer

vars == <<sockets, rooms, adapter, now, lastEvent, sent, pre, handled,
          joinedAs, ticks,
          isOfferer>>

\* ------------------------------------------------------- Map / Array helpers

\* position of roomId in the map's insertion order, 0 when absent
RoomIndex(rs, roomId) ==
  IF \E i \in 1..Len(rs) : rs[i].roomId = roomId
  THEN CHOOSE i \in 1..Len(rs) : rs[i].roomId = roomId
  ELSE 0

\* rooms.has(roomId)
Has(rs, roomId) == RoomIndex(rs, roomId) # 0

\* rooms.get(roomId)
Get(rs, roomId) == rs[RoomIndex(rs, roomId)]

\* rooms.set(roomId, {clients: [], createdAt: Date.now()}) for a new key
SetNew(rs, roomId, t) ==
  Append(rs, [roomId |-> roomId, clients |-> <<>>, createdAt |-> t])

\* rooms.delete(roomId)
Delete(rs, roomId) == SelectSeq(rs, LAMBDA x : x.roomId # roomId)

\* room.clients.findIndex(client => client.id === socket.id), 1-based, 0 for -1
FindIndex(clients, id) ==
  IF \E i \in 1..Len(clients) : clients[i].id = id
  THEN CHOOSE i \in 1..Len(clients) :
         /\ clients[i].id = id
         /\ \A j \in 1..(i-1) : clients[j].id # id
  ELSE 0

\* room.clients.splice(clientIndex, 1)
Splice(clients, i) ==
  [j \in 1..(Len(clients) - 1) |-> IF j < i THEN clients[j] ELSE clients[j+1]]

\* the ids stored in room.clients, in order
ClientIds(room) == [i \in 1..Len(room.clients) |-> room.clients[i].id]

\* the ids stored in room.clients, as a set
ClientSet(room) == {room.clients[i].id : i \in 1..Len(room.clients)}

\* the member ids of roomId in a room map, <<>> when the map has no such key
MemberList(rs, roomId) ==
  IF Has(rs, roomId) THEN ClientIds(Get(rs, roomId)) ELSE <<>>

\* the set of member ids of roomId in a room map
MemberSet(rs, roomId) ==
  IF Has(rs, roomId) THEN ClientSet(Get(rs, roomId)) ELSE {}

\* ------------------------------------------------------- transport helpers

\* socket.join(roomId)
SocketJoin(ad, c, roomId) == [ad EXCEPT ![roomId] = @ \cup {c}]

\* socket.leave(roomId)
SocketLeaveEvery(ad, c, roomId) == [r \in RoomIds |-> ad[r] \ {c}]

SocketLeaveNone(ad, c, roomId) == ad

SocketLeave(ad, c, roomId) == [ad EXCEPT ![roomId] = @ \ {c}]

\* socket.io leaves every group of a closing socket before 'disconnect' fires
LeaveAll(ad, c) == [r \in RoomIds |-> ad[r] \ {c}]

\* one delivered message
Msg(to, event, data) == [to |-> to, event |-> event, data |-> data]

\* socket.emit(event, data): to the socket itself
Emit(c, event, data) == {Msg(c, event, data)}

\* socket.to(roomId): every socket of the group except the sender
BroadcastNoExclude(ad, c, roomId) == ad[roomId]

BroadcastToConnected(ad, c, roomId) ==
  {x \in Conns \ {c} : sockets[x] = "connected"}

BroadcastTo(ad, c, roomId) == ad[roomId] \ {c}

\* socket.to(roomId).emit(event, data)
ToRoomEmit(ad, c, roomId, event, data) ==
  {Msg(to, event, data) : to \in BroadcastTo(ad, c, roomId)}

\* socket.to(id).emit(event, data), id a socket id: that socket's own group
ToSocketEmit(c, id, event, data) ==
  {Msg(to, event, data) : to \in {x \in {id} \ {c} : sockets[x] = "connected"}}

Event(kind, c, roomId, payload) ==
  [kind |-> kind, socket |-> c, roomId |-> roomId, payload |-> payload]

Snapshot == [rooms |-> rooms, adapter |-> adapter]

NoEvent == Event("none", 0, NoRoom, NoPayload)

NoSnapshot == [rooms |-> <<>>, adapter |-> [r \in RoomIds |-> {}]]

\* the event loop is idle: the next event can be dispatched to socket c
Dispatch(c) ==
  /\ lastEvent = NoEvent
  /\ sockets[c] = "connected"
  /\ handled < MaxEvents
  /\ handled' = handled + 1
  /\ UNCHANGED ticks

\* --------------------------------------------------------------- auth gate

\* the bearer token the client of socket c holds (header or authToken cookie)
TokenOf(c) == IF c = 1 THEN "none" ELSE IF c = 2 THEN "invalid" ELSE "valid"

\* function authenticateTokenWithCookie(req, res, next): the HTTP routes '/'
\* and '/verify-token' go on (next) only with a token jwt.verify accepts.
\* io.on('connection') installs no such gate for sockets.
AuthenticateTokenWithCookie(token) ==
  IF token = "none" THEN "401"
  ELSE IF token = "invalid" THEN "403"
  ELSE "next"

\* ------------------------------------------------------------------ Init
Init ==
  /\ sockets = [c \in Conns |-> "new"]
  /\ rooms = <<>>
  /\ adapter = [r \in RoomIds |-> {}]
  /\ now = 0
  /\ lastEvent = NoEvent
  /\ sent = {}
  /\ pre = NoSnapshot
  /\ handled = 0
  /\ ticks = 0
  /\ isOfferer = [c \in Conns |-> FALSE]
  /\ joinedAs = [c \in Conns |-> [r \in RoomIds |-> "none"]]

\* io.on('connection', socket => ...)
Connection(c) ==
  /\ lastEvent = NoEvent
  /\ sockets[c] = "new"
  /\ sockets' = [sockets EXCEPT ![c] = "connected"]
  /\ lastEvent' = Event("connection", c, NoRoom, NoPayload)
  /\ sent' = {}
  /\ pre' = Snapshot
  /\ UNCHANGED <<rooms, adapter, now, handled, joinedAs, ticks, isOfferer>>

\* room.clients.push({id, joinedAt}) unless an entry with that id exists
StoreSocketAlways(clients, c, t) == Append(clients, [id |-> c, joinedAt |-> t])

StoreSocket(clients, c, t) ==
  IF FindIndex(clients, c) = 0
  THEN Append(clients, [id |-> c, joinedAt |-> t])
  ELSE clients

\* clients.length, clients = Array.from(io.sockets.adapter.rooms.get(roomId) || [])
ClientCountFromList(ad, list, roomId) == Len(list)

ClientCount(ad, list, roomId) == Cardinality(ad[roomId])

\* the role sent to the joining socket when the group holds n sockets (n < 3)
RoomReadyForSwapped(n) == [isOfferer |-> (n = 1)]

RoomReadyFor(n) == [isOfferer |-> (n = 2)]

\* the role sent to the first listed client when a second socket arrives
FirstClientRoomReadyOfferer == [isOfferer |-> TRUE]

FirstClientRoomReady == [isOfferer |-> FALSE]

RoomFullData == [message |-> "Room is full. Maximum 2 participants allowed."]

\* the role a room-ready{isOfferer} assigns (client/app.js: isOfferer = offerFlag)
RoleName(offerFlag) == IF offerFlag THEN "offerer" ELSE "answerer"

\* client/app.js: socket.on('room-ready', ({ isOfferer: offerFlag }) =>
\* { isOfferer = offerFlag; ... }), for the room-ready sent to socket x
OfferFlag(msgs, x) ==
  \E m \in msgs : m = Msg(x, "room-ready", [isOfferer |-> TRUE])

\* socket.on('join-room', (roomId) => ...)
JoinRoom(c, roomId) ==
  /\ Dispatch(c)
  /\ LET ad1 == SocketJoin(adapter, c, roomId)
         rs1 == IF ~Has(rooms, roomId) THEN SetNew(rooms, roomId, now) ELSE rooms
         idx == RoomIndex(rs1, roomId)
         clients2 == StoreSocket(rs1[idx].clients, c, now)
         n == ClientCount(ad1, clients2, roomId)
         firstClient == clients2[1]
     IN  /\ rooms' = [rs1 EXCEPT ![idx].clients = clients2]
         /\ IF n = 1
            THEN /\ sent' = Emit(c, "room-ready", RoomReadyFor(n))
                 /\ adapter' = ad1
            ELSE IF n = 2
            THEN /\ sent' = Emit(c, "room-ready", RoomReadyFor(n)) \cup
                            (IF firstClient.id # c
                             THEN ToSocketEmit(c, firstClient.id, "room-ready",
                                               FirstClientRoomReady)
                             ELSE {})
                 /\ adapter' = ad1
            ELSE /\ sent' = Emit(c, "room-full", RoomFullData)
                 /\ adapter' = SocketLeave(ad1, c, roomId)
  /\ joinedAs' = [joinedAs EXCEPT ![c][roomId] =
                    IF c \notin adapter'[roomId] THEN "none"
                    ELSE IF c \in adapter[roomId] THEN @
                    ELSE RoleName(\E m \in sent' : m = Msg(c, "room-ready",
                                                           [isOfferer |-> TRUE]))]
  /\ isOfferer' = [x \in Conns |->
                     IF \E m \in sent' : m.to = x /\ m.event = "room-ready"
                     THEN OfferFlag(sent', x)
                     ELSE isOfferer[x]]
  /\ lastEvent' = Event("join-room", c, roomId, NoPayload)
  /\ pre' = Snapshot
  /\ UNCHANGED <<sockets, now>>

\* { sdp: data.sdp }: the object the offer and answer handlers forward
ForwardSdp(data) == [sdp |-> data.sdp]

\* { candidate: data.candidate }: the object the ice-candidate handler forwards
ForwardCandidate(data) == [candidate |-> data.candidate]

\* { message, senderId: socket.id, timestamp: Date.now() }
ChatMessageDataTruncated(c, message, t) ==
  [message |-> IF message > MaxMessageLength THEN MaxMessageLength ELSE message,
   senderId |-> c, timestamp |-> t]

ChatMessageDataAnonymous(c, message, t) == [message |-> message, timestamp |-> t]

ChatMessageData(c, message, t) ==
  [message |-> message, senderId |-> c, timestamp |-> t]

\* socket.on('offer', (data) => ...)
Offer(c, data) ==
  /\ Dispatch(c)
  /\ sent' = ToRoomEmit(adapter, c, data.roomId, "offer", ForwardSdp(data))
  /\ lastEvent' = Event("offer", c, data.roomId, data)
  /\ pre' = Snapshot
  /\ UNCHANGED <<sockets, rooms, adapter, now, joinedAs, isOfferer>>

\* socket.on('answer', (data) => ...)
Answer(c, data) ==
  /\ Dispatch(c)
  /\ sent' = ToRoomEmit(adapter, c, data.roomId, "answer", ForwardSdp(data))
  /\ lastEvent' = Event("answer", c, data.roomId, data)
  /\ pre' = Snapshot
  /\ UNCHANGED <<sockets, rooms, adapter, now, joinedAs, isOfferer>>

\* socket.on('ice-candidate', (data) => ...)
IceCandidate(c, data) ==
  /\ Dispatch(c)
  /\ sent' = ToRoomEmit(adapter, c, data.roomId, "ice-candidate",
                        ForwardCandidate(data))
  /\ lastEvent' = Event("ice-candidate", c, data.roomId, data)
  /\ pre' = Snapshot
  /\ UNCHANGED <<sockets, rooms, adapter, now, joinedAs, isOfferer>>

\* socket.on('chat-message', ({ roomId, message }) => ...)
ChatMessage(c, data) ==
  /\ Dispatch(c)
  /\ sent' = ToRoomEmit(adapter, c, data.roomId, "chat-message",
                        ChatMessageData(c, data.message, now))
  /\ lastEvent' = Event("chat-message", c, data.roomId, data)
  /\ pre' = Snapshot
  /\ UNCHANGED <<sockets, rooms, adapter, now, joinedAs, isOfferer>>

\* the notification of an explicit departure
PeerLeftAsDisconnected(ad, c, roomId) ==
  ToRoomEmit(ad, c, roomId, "peer-disconnected",
             [peerId |-> c, message |-> "Your peer has disconnected"])

PeerLeft(ad, c, roomId) ==
  ToRoomEmit(ad, c, roomId, "peer-left",
             [peerId |-> c, message |-> "Your peer has left the room"])

\* the notification of a closed socket
PeerDisconnected(ad, c, roomId) ==
  ToRoomEmit(ad, c, roomId, "peer-disconnected",
             [peerId |-> c, message |-> "Your peer has disconnected"])

\* room.clients.splice(clientIndex, 1), then rooms.delete if the list is empty
RemoveClientKeepRoom(rs, roomId, clientIndex) ==
  LET idx == RoomIndex(rs, roomId)
  IN  [rs EXCEPT ![idx].clients = Splice(rs[idx].clients, clientIndex)]

RemoveClient(rs, roomId, clientIndex) ==
  LET idx == RoomIndex(rs, roomId)
      clients2 == Splice(rs[idx].clients, clientIndex)
  IN  IF Len(clients2) = 0
      THEN Delete(rs, roomId)
      ELSE [rs EXCEPT ![idx].clients = clients2]

\* function handleUserLeaving(socket, roomId), called by socket.on('leave-room')
HandleUserLeaving(c, roomId) ==
  /\ Dispatch(c)
  /\ adapter' = SocketLeave(adapter, c, roomId)
  /\ IF Has(rooms, roomId) /\ FindIndex(Get(rooms, roomId).clients, c) # 0
     THEN /\ rooms' = RemoveClient(rooms, roomId,
                                   FindIndex(Get(rooms, roomId).clients, c))
          /\ sent' = PeerLeft(adapter', c, roomId)
     ELSE /\ rooms' = rooms
          /\ sent' = {}
  /\ joinedAs' = [joinedAs EXCEPT ![c][roomId] = "none"]
  /\ lastEvent' = Event("leave-room", c, roomId, NoPayload)
  /\ pre' = Snapshot
  /\ UNCHANGED <<sockets, now, isOfferer>>

\* the rooms, in map order, whose clients hold socket c
RoomsHolding(rs, c) == {i \in 1..Len(rs) : FindIndex(rs[i].clients, c) # 0}

\* for (const [roomId, room] of rooms.entries()) { ... break; }: the first hit
LastRoomHolding(rs, c) ==
  CHOOSE i \in RoomsHolding(rs, c) : \A j \in RoomsHolding(rs, c) : i >= j

FirstRoomHolding(rs, c) ==
  CHOOSE i \in RoomsHolding(rs, c) : \A j \in RoomsHolding(rs, c) : i <= j

\* socket.on('disconnect', () => ...)
Disconnect(c) ==
  /\ Dispatch(c)
  /\ sockets' = [sockets EXCEPT ![c] = "disconnected"]
  /\ adapter' = LeaveAll(adapter, c)
  /\ IF RoomsHolding(rooms, c) # {}
     THEN LET i == FirstRoomHolding(rooms, c)
              roomId == rooms[i].roomId
          IN  /\ rooms' = RemoveClient(rooms, roomId, FindIndex(rooms[i].clients, c))
              /\ sent' = PeerDisconnected(adapter', c, roomId)
     ELSE /\ rooms' = rooms
          /\ sent' = {}
  /\ joinedAs' = [joinedAs EXCEPT ![c] = [r \in RoomIds |-> "none"]]
  /\ lastEvent' = Event("disconnect", c, NoRoom, NoPayload)
  /\ pre' = Snapshot
  /\ UNCHANGED <<now, isOfferer>>

\* what a client sends with offer and answer: { roomId, sdp }, possibly with
\* further fields of its own
RelayData ==
  [roomId : RoomIds, sdp : SdpValues] \cup
  [roomId : RoomIds, sdp : SdpValues, tag : {"t1"}]

CandidateData == [roomId : RoomIds, candidate : SdpValues]

ChatData == [roomId : RoomIds, message : MessageLengths]

\* the rooms the sweep keeps: it deletes a room when
\* room.clients.length === 0 && (now - room.createdAt) > maxAge
SweepRooms(rs, t) ==
  SelectSeq(rs, LAMBDA x : ~(Len(x.clients) = 0 /\ (t - x.createdAt) > MaxAge))

\* setInterval(() => { ... }, 60 * 60 * 1000): one run of the periodic cleanup
Sweep ==
  /\ lastEvent = NoEvent
  /\ rooms' = SweepRooms(rooms, now)
  /\ lastEvent' = Event("sweep", 0, NoRoom, NoPayload)
  /\ sent' = {}
  /\ pre' = Snapshot
  /\ UNCHANGED <<sockets, adapter, now, handled, joinedAs, ticks, isOfferer>>

\* Date.now() advances between two events
Tick(d) ==
  /\ lastEvent = NoEvent
  /\ ticks < MaxTicks
  /\ handled < MaxEvents
  /\ ticks' = ticks + 1
  /\ handled' = handled + 1
  /\ now' = now + d
  /\ UNCHANGED <<sockets, rooms, adapter, lastEvent, sent, pre, joinedAs, isOfferer>>

\* the handler returns to the event loop
Return ==
  /\ lastEvent # NoEvent
  /\ lastEvent' = NoEvent
  /\ sent' = {}
  /\ pre' = NoSnapshot
  /\ UNCHANGED <<sockets, rooms, adapter, now, handled, joinedAs, ticks, isOfferer>>

Next ==
  \/ \E c \in Conns : Connection(c)
  \/ \E c \in Conns, roomId \in RoomIds : JoinRoom(c, roomId)
  \/ \E c \in Conns, data \in RelayData : Offer(c, data)
  \/ \E c \in Conns, data \in RelayData : Answer(c, data)
  \/ \E c \in Conns, data \in CandidateData : IceCandidate(c, data)
  \/ \E c \in Conns, data \in ChatData : ChatMessage(c, data)
  \/ \E c \in Conns, roomId \in RoomIds : HandleUserLeaving(c, roomId)
  \/ \E c \in Conns : Disconnect(c)
  \/ Sweep
  \/ Return

Spec == Init /\ [][Next]_vars

\* the handlers that change membership, without the relays: a relay changes
\* neither the room map nor a group, so every room state of Spec is reached
NextRooms ==
  \/ \E c \in Conns : Connection(c)
  \/ \E c \in Conns, roomId \in RoomIds : JoinRoom(c, roomId)
  \/ \E c \in Conns, roomId \in RoomIds : HandleUserLeaving(c, roomId)
  \/ \E c \in Conns : Disconnect(c)
  \/ Sweep
  \/ Return

SpecRooms == Init /\ [][NextRooms]_vars

\* the 'disconnect' handler run once more for a socket whose disconnect has
\* been handled (socket.io has already emptied the socket's groups)
DuplicateDisconnect(c) ==
  /\ lastEvent = NoEvent
  /\ sockets[c] = "disconnected"
  /\ handled < MaxEvents
  /\ handled' = handled + 1
  /\ adapter' = LeaveAll(adapter, c)
  /\ IF RoomsHolding(rooms, c) # {}
     THEN LET i == FirstRoomHolding(rooms, c)
              roomId == rooms[i].roomId
          IN  /\ rooms' = RemoveClient(rooms, roomId, FindIndex(rooms[i].clients, c))
              /\ sent' = PeerDisconnected(adapter', c, roomId)
     ELSE /\ rooms' = rooms
          /\ sent' = {}
  /\ lastEvent' = Event("disconnect-again", c, NoRoom, NoPayload)
  /\ pre' = Snapshot
  /\ UNCHANGED <<sockets, now, joinedAs, ticks, isOfferer>>

\* the handlers, with the 'disconnect' handler also run for sockets that are
\* already disconnected
NextDuplicate ==
  \/ Next
  \/ \E c \in Conns : DuplicateDisconnect(c)

SpecDuplicate == Init /\ [][NextDuplicate]_vars

\* the handlers that read the clock or change the room map, with the clock
\* advancing between events
NextTimed ==
  \/ \E c \in Conns : Connection(c)
  \/ \E c \in Conns, roomId \in RoomIds : JoinRoom(c, roomId)
  \/ \E c \in Conns, data \in ChatData : ChatMessage(c, data)
  \/ \E c \in Conns, roomId \in RoomIds : HandleUserLeaving(c, roomId)
  \/ \E c \in Conns : Disconnect(c)
  \/ \E d \in TickSteps : Tick(d)
  \/ Sweep
  \/ Return

SpecTimed == Init /\ [][NextTimed]_vars
\* ---------------------------------------------------------------- claims
\* In a state where a handler has just run, `pre` is the room state the
\* handler started from, `lastEvent` the event and `sent` what it emitted.

Joined(c, roomId) ==
  lastEvent.kind = "join-room" /\ lastEvent.socket = c /\ lastEvent.roomId = roomId

Left(c, roomId) ==
  lastEvent.kind = "leave-room" /\ lastEvent.socket = c /\ lastEvent.roomId = roomId

Disconnected(c) == lastEvent.kind = "disconnect" /\ lastEvent.socket = c

RelayKinds == {"offer", "answer", "ice-candidate", "chat-message"}

RoomReady(c, flag) == Msg(c, "room-ready", [isOfferer |-> flag])

Recipients == {m.to : m \in sent}

\* C1: every room of the room map has at most 2 entries in room.clients,
\* in every reachable state.
C1_AtMostTwoClients == \A i \in 1..Len(rooms) : Len(rooms[i].clients) <= 2

\* C2: a join-room by a socket that is not a member, for a room whose member
\* list holds 2 sockets (both present in the room), is answered with room-full
\* and leaves the member list exactly as it was.
C2_RejectedJoinLeavesList ==
  \A c \in Conns, r \in RoomIds :
    ( /\ Joined(c, r)
      /\ Len(MemberList(pre.rooms, r)) = 2
      /\ pre.adapter[r] = MemberSet(pre.rooms, r)
      /\ c \notin MemberSet(pre.rooms, r) )
    => /\ Msg(c, "room-full", RoomFullData) \in sent
       /\ MemberList(rooms, r) = MemberList(pre.rooms, r)

\* a room whose only entry, and only present socket, is c1
Single(rs, ad, r, c1) == MemberList(rs, r) = <<c1>> /\ ad[r] = {c1}

\* C3: the first socket to join a room identifier that is not in the room map
\* is sent room-ready{isOfferer:false} and is then the room's single member;
\* that stays so until it departs or another socket joins; and the next
\* distinct socket to join is sent room-ready{isOfferer:true}, whatever the
\* two socket ids are.
C3_RolesByArrivalOrder ==
  \A c \in Conns, r \in RoomIds :
    /\ (Joined(c, r) /\ ~Has(pre.rooms, r))
         => /\ RoomReady(c, FALSE) \in sent
            /\ RoomReady(c, TRUE) \notin sent
            /\ Single(rooms, adapter, r, c)
    /\ ( /\ lastEvent # NoEvent
         /\ Single(pre.rooms, pre.adapter, r, c)
         /\ ~Left(c, r)
         /\ ~Disconnected(c)
         /\ ~(lastEvent.kind = "join-room" /\ lastEvent.roomId = r
                /\ lastEvent.socket # c) )
         => Single(rooms, adapter, r, c)
    /\ \A c2 \in Conns \ {c} :
         (Joined(c2, r) /\ Single(pre.rooms, pre.adapter, r, c))
           => /\ RoomReady(c2, TRUE) \in sent
              /\ RoomReady(c2, FALSE) \notin sent

\* C3 witness: the second arrival has the smaller socket id and is the offerer
C3_Witness ==
  \E c \in Conns, c2 \in Conns, r \in RoomIds :
    /\ c2 < c
    /\ Joined(c2, r)
    /\ Single(pre.rooms, pre.adapter, r, c)
    /\ RoomReady(c2, TRUE) \in sent
    /\ MemberList(rooms, r) = <<c, c2>>

\* C4: when the last admitted member of a room departs, by leave-room or by
\* disconnect, the room identifier is removed from the room map in that step;
\* and a join-room for an identifier that is not in the map is answered with
\* room-ready{isOfferer:false}.
C4_LastDepartureDeletesRoom ==
  \A c \in Conns, r \in RoomIds :
    /\ ((Left(c, r) \/ Disconnected(c)) /\ pre.adapter[r] = {c})
         => ~Has(rooms, r)
    /\ (Joined(c, r) /\ ~Has(pre.rooms, r)) => RoomReady(c, FALSE) \in sent

\* C5: when a socket joins a room in which exactly one other socket is
\* present, the joiner is sent room-ready{isOfferer:true}, that other socket
\* is sent room-ready{isOfferer:false}, and no socket outside the room is sent
\* room-ready.
C5_SecondJoinNotifiesPeer ==
  \A c \in Conns, o \in Conns, r \in RoomIds :
    (o # c /\ Joined(c, r) /\ pre.adapter[r] = {o})
      => /\ RoomReady(c, TRUE) \in sent
         /\ RoomReady(o, FALSE) \in sent
         /\ \A m \in sent : m.event = "room-ready" => m.to \in adapter[r]

\* C6: an offer, answer, ice-candidate or chat-message sent by socket S naming
\* room R is delivered exactly to the sockets present in R other than S, all
\* of them entries of R's member list, and never to S.
C6_RelayExcludesSender ==
  (lastEvent.kind \in RelayKinds)
    => /\ Recipients = pre.adapter[lastEvent.roomId] \ {lastEvent.socket}
       /\ Recipients \subseteq MemberSet(pre.rooms, lastEvent.roomId)
       /\ lastEvent.socket \notin Recipients
       /\ \A m \in sent : m.event = lastEvent.kind

\* C6 witness: a member relays and its peer, not itself, gets the message
C6_Witness ==
  /\ lastEvent.kind \in RelayKinds
  /\ lastEvent.socket \in pre.adapter[lastEvent.roomId]
  /\ Recipients # {}

\* C7: if A and B are the members of a room and A disconnects, B is sent
\* peer-disconnected with A's id and the room's member list becomes <<B>>,
\* whatever other rooms A had joined.
C7_DisconnectNotifiesPeer ==
  \A a \in Conns, b \in Conns, r \in RoomIds :
    ( /\ a # b
      /\ Disconnected(a)
      /\ MemberSet(pre.rooms, r) = {a, b}
      /\ pre.adapter[r] = {a, b} )
    => /\ \E m \in sent : /\ m.to = b
                          /\ m.event = "peer-disconnected"
                          /\ m.data.peerId = a
       /\ MemberList(rooms, r) = <<b>>

\* C8: a leave-room by a member (a socket present in the room) removes it from
\* the member list and sends peer-left, and nothing else, with its id to each
\* socket that remains present in the room; a disconnect sends only
\* peer-disconnected with the id of the closed socket.
C8_LeftVersusDisconnected ==
  \A c \in Conns, r \in RoomIds :
    /\ (Left(c, r) /\ c \in pre.adapter[r])
         => /\ c \notin MemberSet(rooms, r)
            /\ c \notin adapter[r]
            /\ Recipients = pre.adapter[r] \ {c}
            /\ \A m \in sent : m.event = "peer-left" /\ m.data.peerId = c
    /\ Disconnected(c)
         => \A m \in sent : m.event = "peer-disconnected" /\ m.data.peerId = c

\* C8 witness: a member leaves and its peer is told so
C8_Witness ==
  \E c \in Conns, r \in RoomIds :
    /\ Left(c, r)
    /\ c \in pre.adapter[r]
    /\ \E m \in sent : m.event = "peer-left" /\ m.to # c

\* C9: a join-room with the empty room identifier creates no room and adds
\* the socket to no member list.
C9_EmptyRoomIdRejected ==
  \A c \in Conns :
    Joined(c, "")
      => /\ ~Has(rooms, "")
         /\ \A r \in RoomIds :
              c \in MemberSet(rooms, r) => c \in MemberSet(pre.rooms, r)

\* C10: a chat-message whose text is longer than the maximum (500) is
\* delivered to no socket.
C10_LongChatRejected ==
  (lastEvent.kind = "chat-message"
     /\ lastEvent.payload.message > MaxMessageLength)
    => sent = {}
\* C11: a join-room from a socket whose token does not pass the
\* authentication gate changes neither the room map nor any member list (nor
\* any room group) and admits the socket to no room.
C11_UnauthenticatedJoinRejected ==
  \A c \in Conns, r \in RoomIds :
    (Joined(c, r) /\ AuthenticateTokenWithCookie(TokenOf(c)) # "next")
      => /\ rooms = pre.rooms
         /\ adapter = pre.adapter
         /\ \A m \in sent : m.event # "room-ready"

\* C15: a leave-room naming a room that is not in the room map, or a room in
\* which the socket is not an admitted member, changes no room state and
\* notifies nobody; a relay naming a room that is not in the room map
\* delivers nothing.
C15_UnknownRoomIsNoOp ==
  \A c \in Conns, r \in RoomIds :
    /\ (Left(c, r) /\ (~Has(pre.rooms, r) \/ c \notin pre.adapter[r]))
         => /\ rooms = pre.rooms
            /\ adapter = pre.adapter
            /\ sent = {}
    /\ ( /\ lastEvent.kind \in RelayKinds
         /\ lastEvent.roomId = r
         /\ ~Has(pre.rooms, r) )
         => sent = {}

\* C17: a join-room (admitted or rejected), leave-room or relay addressed to
\* room R leaves every other room as it was: same presence in the room map,
\* same member list, same group; a socket rejected from R keeps its
\* membership of the other rooms.
C17_OtherRoomsUntouched ==
  (lastEvent.kind \in RelayKinds \cup {"join-room", "leave-room"})
    => \A r2 \in RoomIds \ {lastEvent.roomId} :
         /\ Has(rooms, r2) = Has(pre.rooms, r2)
         /\ Has(rooms, r2) => Get(rooms, r2) = Get(pre.rooms, r2)
         /\ adapter[r2] = pre.adapter[r2]

\* C17 witness: a socket that is a member of another room is rejected from a
\* full room and is still a member of the other room
C17_Witness ==
  \E c \in Conns, r \in RoomIds, r2 \in RoomIds :
    /\ r2 # r
    /\ Joined(c, r)
    /\ Msg(c, "room-full", RoomFullData) \in sent
    /\ c \in adapter[r2]
    /\ c \in MemberSet(rooms, r2)
\* the payload a sender supplied: its data object without the room address
PayloadOf(data) == [f \in DOMAIN data \ {"roomId"} |-> data[f]]

\* C18: every chat-message delivered to a peer carries the text that was
\* sent, the sender's socket id and the server's clock reading.
C18_ChatCarriesSenderAndTime ==
  (lastEvent.kind = "chat-message")
    => \A m \in sent :
         /\ m.event = "chat-message"
         /\ m.data.message = lastEvent.payload.message
         /\ m.data.senderId = lastEvent.socket
         /\ m.data.timestamp = now

\* C18 witness: a chat-message sent after the clock has advanced reaches a
\* peer
C18_Witness ==
  /\ lastEvent.kind = "chat-message"
  /\ lastEvent.payload.message > MaxMessageLength
  /\ now > 0
  /\ \E m \in sent : m.to # lastEvent.socket

\* C19: a relayed offer, answer or ice-candidate is re-emitted under the kind
\* it was sent with and with a payload equal to the one the sender supplied:
\* nothing added, dropped or rewritten.
C19_PayloadForwardedVerbatim ==
  (lastEvent.kind \in {"offer", "answer", "ice-candidate"})
    => \A m \in sent :
         /\ m.event = lastEvent.kind
         /\ m.data = PayloadOf(lastEvent.payload)

C14_SweepDeletesMemberlessRooms ==
  (lastEvent.kind = "sweep")
    => \A i \in 1..Len(pre.rooms) :
         LET room == pre.rooms[i]
             stale == pre.adapter[room.roomId] = {}
                        /\ now - room.createdAt > MaxAge
         IN  /\ stale => ~Has(rooms, room.roomId)
             /\ ~stale => Has(rooms, room.roomId)
                            /\ Get(rooms, room.roomId) = room
\* C12: while the same two sockets remain the members of a room, a
\* join-room for that room by either of them sends neither of them a
\* room-ready whose isOfferer differs from the role it was given when it
\* joined.
C12_RoleFixedWhileBothRemain ==
  \A c, o \in Conns, r \in RoomIds :
    (c # o /\ Joined(c, r) /\ pre.adapter[r] = {c, o} /\ adapter[r] = {c, o})
      => \A x \in {c, o}, flag \in BOOLEAN :
           RoomReady(x, flag) \in sent => RoleName(flag) = joinedAs[x][r]

\* C13 as stated: when a socket joins a room whose only member is the
\* survivor of an earlier pair, the new arrival is sent isOfferer:true and the
\* survivor is sent no room-ready that differs from the role it joined with.
C13_SurvivorKeepsJoinRole ==
  \A c, o \in Conns, r \in RoomIds :
    (c # o /\ Joined(c, r) /\ pre.adapter[r] = {o} /\ joinedAs[o][r] # "none")
      => /\ RoomReady(c, TRUE) \in sent
         /\ \A flag \in BOOLEAN :
              RoomReady(o, flag) \in sent => RoleName(flag) = joinedAs[o][r]

\* C13 amended: the new arrival is sent isOfferer:true; the survivor is never
\* sent isOfferer:true, and when it heads the member list it is sent
\* isOfferer:false, whatever role it joined with.
C13_SurvivorBecomesAnswerer ==
  \A c, o \in Conns, r \in RoomIds :
    (c # o /\ Joined(c, r) /\ pre.adapter[r] = {o} /\ joinedAs[o][r] # "none")
      => /\ RoomReady(c, TRUE) \in sent
         /\ RoomReady(o, TRUE) \notin sent
         /\ (MemberList(pre.rooms, r)[1] = o) => RoomReady(o, FALSE) \in sent

\* C13 witness: the survivor had joined as offerer, its peer has gone, and
\* the join of a new socket sends it isOfferer:false
C13_Witness ==
  \E c, o \in Conns, r \in RoomIds :
    /\ c # o /\ Joined(c, r) /\ pre.adapter[r] = {o}
    /\ joinedAs[o][r] = "offerer"
    /\ RoomReady(c, TRUE) \in sent
    /\ RoomReady(o, FALSE) \in sent
C21_NoReplayAfterJoin ==
  \A m \in sent :
    m.event \in RelayKinds
      => /\ lastEvent.kind = m.event
         /\ m.to \in pre.adapter[lastEvent.roomId]
         /\ m.to \in adapter[lastEvent.roomId]

\* C21 witness: a message is relayed to a member of a room while a connected
\* socket that has not joined the room is sent nothing
C21_Witness ==
  /\ lastEvent.kind \in RelayKinds
  /\ sent # {}
  /\ \E c \in Conns :
       /\ sockets[c] = "connected"
       /\ c # lastEvent.socket
       /\ c \notin pre.adapter[lastEvent.roomId]
       /\ c \notin Recipients
\* C22 as stated: the outcome of a join-room follows from the number of
\* entries in the room's member list before the call: 0 gives
\* room-ready{isOfferer:false}, 1 gives room-ready{isOfferer:true}, 2 gives
\* room-full.
C22_OutcomeByListLength ==
  \A c \in Conns, r \in RoomIds :
    Joined(c, r)
      => LET k == Len(MemberList(pre.rooms, r))
         IN  /\ k = 0 => RoomReady(c, FALSE) \in sent
             /\ k = 1 => RoomReady(c, TRUE) \in sent
             /\ k = 2 => Msg(c, "room-full", RoomFullData) \in sent

\* C22 amended: the outcome follows from the number of sockets in the room's
\* transport group once the caller is in it: 1 gives
\* room-ready{isOfferer:false}, 2 gives room-ready{isOfferer:true}, 3 or more
\* gives room-full; the caller is sent nothing else.
C22_OutcomeByGroupSize ==
  \A c \in Conns, r \in RoomIds :
    Joined(c, r)
      => LET n == Cardinality(pre.adapter[r] \cup {c})
             toCaller == {m \in sent : m.to = c}
         IN  /\ n = 1 => toCaller = {RoomReady(c, FALSE)}
             /\ n = 2 => toCaller = {RoomReady(c, TRUE)}
             /\ n >= 3 => toCaller = {Msg(c, "room-full", RoomFullData)}

\* C22 witness: a socket joins a room whose member list has 2 entries and
\* whose group holds one socket, and is sent room-ready{isOfferer:true}
C22_Witness ==
  \E c \in Conns, r \in RoomIds :
    /\ Joined(c, r)
    /\ c \notin pre.adapter[r]
    /\ Len(MemberList(pre.rooms, r)) = 2
    /\ Cardinality(pre.adapter[r]) = 1
    /\ RoomReady(c, TRUE) \in sent
\* C23: a socket whose join-room is answered with room-full is outside the
\* room's transport group when the handler returns; a socket enters a group
\* only through its own join-room for that room, so a freed slot admits nobody
\* by itself; and a relay in a room is delivered to no socket outside its
\* group.
C23_Step ==
  \A c \in Conns, r \in RoomIds :
    /\ (Joined(c, r)' /\ Msg(c, "room-full", RoomFullData) \in sent')
         => c \notin adapter'[r]
    /\ (c \notin adapter[r] /\ c \in adapter'[r]) => Joined(c, r)'
    /\ (lastEvent'.kind \in RelayKinds /\ lastEvent'.roomId = r
          /\ c \notin adapter[r])
         => c \notin Recipients'

C23_RejectedStaysOut == [][C23_Step]_vars

\* C23 witness: a message is relayed between the two members of a room while
\* a connected socket whose join was rejected (it is listed but not in the
\* group) is sent nothing
C23_Witness ==
  /\ lastEvent.kind \in RelayKinds
  /\ sent # {}
  /\ \E c \in Conns :
       /\ sockets[c] = "connected"
       /\ c \in MemberSet(rooms, lastEvent.roomId)
       /\ c \notin adapter[lastEvent.roomId]
       /\ c \notin Recipients
C25_NoDuplicateEntry ==
  \A i \in 1..Len(rooms) :
    \A k, l \in 1..Len(rooms[i].clients) :
      rooms[i].clients[k].id = rooms[i].clients[l].id => k = l

\* C25 witness: a socket that is listed in a room sends join-room for that
\* room again, and the list is as it was
C25_Witness ==
  \E c \in Conns, r \in RoomIds :
    /\ Joined(c, r)
    /\ c \in MemberSet(pre.rooms, r)
    /\ MemberList(rooms, r) = MemberList(pre.rooms, r)
\* C26: for every room identifier the set of socket ids in the room's member
\* list equals the room's transport group, and the identifier is in the room
\* map exactly when the group is not empty.
C26_ListMatchesGroup ==
  \A r \in RoomIds :
    /\ MemberSet(rooms, r) = adapter[r]
    /\ Has(rooms, r) <=> adapter[r] # {}
\* C27: whenever a room has two members, the most recent room-ready each of
\* them received leaves exactly one of them with isOfferer true.
C27_ExactlyOneOfferer ==
  \A a, b \in Conns, r \in RoomIds :
    (a # b /\ adapter[r] = {a, b}) => isOfferer[a] # isOfferer[b]
\* C28: after a socket's disconnect has been handled, its id is in no room's
\* member list.
C28_DisconnectedSocketUnlisted ==
  \A c \in Conns, r \in RoomIds :
    sockets[c] = "disconnected" => c \notin MemberSet(rooms, r)

\* C29: an offer, answer, ice-candidate or chat-message that names a room and
\* comes from a socket that is not a member of that room is delivered to
\* nobody.
C29_NonMemberRelaysNothing ==
  \A c \in Conns, r \in RoomIds :
    (lastEvent.kind \in RelayKinds /\ lastEvent.socket = c
       /\ lastEvent.roomId = r /\ c \notin pre.adapter[r])
      => sent = {}

\* C30: peer-left and peer-disconnected are sent to the members of a room
\* only about a socket that was a member of that room before the event.
C30_DepartureNoticesOnlyAboutMembers ==
  \A m \in sent :
    m.event \in {"peer-left", "peer-disconnected"}
      => \E r \in RoomIds : /\ m.to \in pre.adapter[r]
                            /\ m.data.peerId \in pre.adapter[r]
\* C31: no room of the room map has an empty member list, in any state
\* between two handler runs or after one; so a sweep run, whatever the age of
\* the rooms, finds nothing to delete and leaves the room map as it was.
C31_NoEmptyRoomInMap ==
  /\ \A i \in 1..Len(rooms) : Len(rooms[i].clients) >= 1
  /\ (lastEvent.kind = "sweep") => rooms = pre.rooms

\* C31 witness: the sweep runs over a room that is older than the retention
\* window and whose transport group is empty, and the room map is unchanged
C31_Witness ==
  /\ lastEvent.kind = "sweep"
  /\ rooms = pre.rooms
  /\ \E i \in 1..Len(pre.rooms) :
       /\ now - pre.rooms[i].createdAt > MaxAge
       /\ adapter[pre.rooms[i].roomId] = {}

\* C32: once no socket is connected any more and the sweep has run over rooms
\* that are all older than the retention window, the room map is empty.
C32_NoRoomOutlivesConnections ==
  ( /\ lastEvent.kind = "sweep"
    /\ \A c \in Conns : sockets[c] # "connected"
    /\ \A i \in 1..Len(pre.rooms) : now - pre.rooms[i].createdAt > MaxAge )
  => rooms = <<>>
====
